---- MODULE Spec2Model ----
(***************************************************************************)
(* Model of the Playwright auto-fixer (dagger/src): the confidence scorer  *)
(* (confidence_scorer.py) and the batch loop of attempt_fix (main.py).     *)
(*                                                                         *)
(* Confidence values are exact fixed-point numbers in millionths           *)
(* (One = 1.0).  Multipliers and penalties are percentages, so every       *)
(* product of the scorer is an exact integer in this unit.                 *)
(* Model identifiers are sequences of one-character strings, so that       *)
(* lower-casing, splitting on "/" and substring tests are computed as the  *)
(* code computes them.                                                     *)
(***************************************************************************)
EXTENDS Integers, Sequences, FiniteSets, TLC

VARIABLES
    in_raw,        \* scorer input: ai_confidence as passed by the caller
    in_passed,     \* scorer input: test_passed
    in_pattern,    \* scorer input: pattern
    in_model,      \* scorer input: model identifier
    in_size,       \* scorer input: fix_complexity
    spc,           \* position of the scorer caller: "ready" | "scored"
    score,         \* result of calculate_confidence, or NoScore
    mult_q,        \* result of get_model_multiplier, or NoMult
    failures,      \* attempt_fix: failures_data["failures"], the list in the failures JSON
    ai_model,      \* attempt_fix argument
    min_confidence,\* attempt_fix argument
    max_failures,  \* attempt_fix argument
    pc,            \* attempt_fix: position of the coroutine
    status,        \* attempt_fix: "idle" | "running" | "completed" | "no_failures" | "raised"
    ftp,           \* attempt_fix: failures_to_process
    idx,           \* attempt_fix: 1-based position of the loop in ftp
    fix_data,      \* attempt_fix: fix_data of the current item, or NoFix
    test_result,   \* attempt_fix: test_result of the current item, or NoTest
    results,       \* attempt_fix: the list of accepted fixes
    report,        \* attempt_fix: the returned report, or NoReport
    item_state,    \* history: stage reached by each item of ftp
    item_final,    \* history: final confidence of each scored item of ftp, else -1
    model_calls,   \* history: litellm.completion calls made for each item of ftp
    sandbox_runs,  \* history: TestRunner.run_test calls made for each item of ftp
    caller,        \* the entry point that was called: "attempt_fix" | "fix_and_create_pr" | "none"
    ppc,           \* fix_and_create_pr: position of the coroutine
    requests,      \* history: the source-hosting requests sent, in order
    pr_local,      \* fix_and_create_pr: fixes, overall_confidence, top_recommendation, ...
    pr_report,     \* fix_and_create_pr: the returned report, or NoReport
    p_reply,       \* _parse_response input: the reply, as json.loads sees it
    p_out,         \* _parse_response result: NoParse before the call
    t_in,          \* _parse_response input: the parts the reply text is made of
    t_out,         \* _parse_response result on that text: NoText before the call
    x_in,          \* _extract_context input: the file and the line number
    x_out          \* _extract_context result: NoContext before the call

scorerVars == <<in_raw, in_passed, in_pattern, in_model, in_size, spc, score, mult_q>>

batchVars == <<failures, ai_model, min_confidence, max_failures, pc, status, ftp, idx,
               fix_data, test_result, results, report,
               item_state, item_final, model_calls, sandbox_runs>>

prVars == <<caller, ppc, requests, pr_local, pr_report>>

parseVars == <<p_reply, p_out, t_in, t_out, x_in, x_out>>

vars == <<scorerVars, batchVars, prVars, parseVars>>

----------------------------------------------------------------------------
(* Bounds of the model *)

MaxRawStep == 11     \* largest raw confidence drawn, in steps of 0.1
MaxEdit == 11        \* largest edit size drawn
MaxFailures == 3     \* longest failure list drawn
MaxCodeLen == 2      \* longest fixed_code drawn for the reply text, in tokens
MaxLines == 6        \* longest file drawn for the context excerpt, in lines
MaxLongFailures == 6 \* length of the failure list drawn that is longer than the cap

----------------------------------------------------------------------------
(* Fixed-point representation *)

One == 1000000

Min(a, b) == IF a <= b THEN a ELSE b
Max(a, b) == IF a >= b THEN a ELSE b

----------------------------------------------------------------------------
(* confidence_scorer.py : tables *)

MODEL_KEYS == <<
    <<"g","p","t","-","4">>,
    <<"g","p","t","-","4","o">>,
    <<"g","p","t","-","4","o","-","m","i","n","i">>,
    <<"g","p","t","-","4","-","t","u","r","b","o">>,
    <<"c","l","a","u","d","e","-","3","-","5","-","s","o","n","n","e","t">>,
    <<"c","l","a","u","d","e","-","3","-","s","o","n","n","e","t">>,
    <<"c","l","a","u","d","e","-","3","-","o","p","u","s">>,
    <<"d","e","e","p","s","e","e","k","-","c","h","a","t">>,
    <<"d","e","e","p","s","e","e","k","-","c","o","d","e","r">>,
    <<"d","e","e","p","s","e","e","k","/","d","e","e","p","s","e","e","k","-","c","h","a","t">>,
    <<"d","e","e","p","s","e","e","k","/","d","e","e","p","s","e","e","k","-","c","o","d","e","r">> >>

\* the multipliers of MODEL_KEYS, in percent, in the order of the table
MODEL_VALUES == <<100, 100, 85, 100, 100, 95, 100, 70, 75, 70, 75>>

\* MODEL_MULTIPLIERS.get(key, 0.60)
MODEL_MULTIPLIERS_get(key) ==
    IF \E i \in 1..Len(MODEL_KEYS) : MODEL_KEYS[i] = key
    THEN MODEL_VALUES[CHOOSE i \in 1..Len(MODEL_KEYS) : MODEL_KEYS[i] = key]
    ELSE 60

\* PATTERN_BOOSTS.get(pattern, 0.0), in millionths
get_pattern_boost(pattern) ==
    CASE pattern = "missing_await" -> 100000
      [] pattern = "module_not_found" -> 100000
      [] pattern = "type_mismatch" -> 80000
      [] pattern = "selector_timeout" -> 50000
      [] pattern = "navigation_timeout" -> 50000
      [] OTHER -> 0

----------------------------------------------------------------------------
(* confidence_scorer.py : _normalize_model_name *)

UpperChars == <<"A","B","C","D","E","F","G","H","I","J","K","L","M",
                "N","O","P","Q","R","S","T","U","V","W","X","Y","Z">>
LowerChars == <<"a","b","c","d","e","f","g","h","i","j","k","l","m",
                "n","o","p","q","r","s","t","u","v","w","x","y","z">>

\* str.lower() on one character
LowerChar(c) ==
    IF \E i \in 1..26 : UpperChars[i] = c
    THEN LowerChars[CHOOSE i \in 1..26 : UpperChars[i] = c]
    ELSE c

\* str.lower()
Lower(s) == [i \in 1..Len(s) |-> LowerChar(s[i])]

\* s.split('/')[-1] when '/' is in s, s otherwise
LastPart(s) ==
    LET slashes == {i \in 1..Len(s) : s[i] = "/"}
    IN  IF slashes = {} THEN s
        ELSE LET j == CHOOSE i \in slashes : \A k \in slashes : k <= i
             IN  SubSeq(s, j + 1, Len(s))

\* Python's  needle in hay  on strings
Contains(hay, needle) ==
    \E i \in 0..(Len(hay) - Len(needle)) :
        SubSeq(hay, i + 1, i + Len(needle)) = needle

Unknown == <<"u","n","k","n","o","w","n">>

\* the first key, in table order, that contains or is contained in the
\* normalized name; "unknown" when there is none
normalize_model_name(model) ==
    LET model_lower == LastPart(Lower(model))
        hits == {i \in 1..Len(MODEL_KEYS) :
                    \/ Contains(model_lower, MODEL_KEYS[i])
                    \/ Contains(MODEL_KEYS[i], model_lower)}
    IN  IF hits = {} THEN Unknown
        ELSE MODEL_KEYS[CHOOSE i \in hits : \A k \in hits : i <= k]

get_model_multiplier(model) == MODEL_MULTIPLIERS_get(normalize_model_name(model))

\* get_supported_models(): the table as (key, value) pairs
get_supported_models == {<<MODEL_KEYS[i], MODEL_VALUES[i]>> : i \in 1..Len(MODEL_KEYS)}

----------------------------------------------------------------------------
(* confidence_scorer.py : penalties, recommendation, calculate_confidence *)

\* faulty variant: the first band ends at 6 lines instead of 5
calculate_complexity_penalty_Shifted(lines_changed) ==
    IF lines_changed <= 1 THEN 0
    ELSE IF lines_changed <= 6 THEN 0
    ELSE IF lines_changed <= 10 THEN 15
    ELSE 30

\* penalty in percent
calculate_complexity_penalty(lines_changed) ==
    IF lines_changed <= 1 THEN 0
    ELSE IF lines_changed <= 5 THEN 0
    ELSE IF lines_changed <= 10 THEN 15
    ELSE 30

\* faulty variant: the top band excludes its lower bound
get_recommendation_Strict(confidence) ==
    IF confidence > 900000 THEN "CREATE_PR"
    ELSE IF confidence >= 750000 THEN "CREATE_DRAFT_PR"
    ELSE IF confidence >= 500000 THEN "COMMENT_ONLY"
    ELSE "SKIP"

get_recommendation(confidence) ==
    IF confidence >= 900000 THEN "CREATE_PR"
    ELSE IF confidence >= 750000 THEN "CREATE_DRAFT_PR"
    ELSE IF confidence >= 500000 THEN "COMMENT_ONLY"
    ELSE "SKIP"

\* faulty variant: the lower clamp is missing
Clamp01_NoFloor(x) == Min(One, x)

\* max(0.0, min(1.0, x))
Clamp01(x) == Max(0, Min(One, x))

\* faulty variant: the boost is given to the failed test
test_boost_of_Inverted(test_passed) == IF test_passed THEN 0 ELSE 150000

\* 0.15 if test_passed else 0.0
test_boost_of(test_passed) == IF test_passed THEN 150000 ELSE 0

\* faulty variant: the complexity penalty is applied before the boosts
calculate_confidence_PenaltyFirst(ai_confidence, test_passed, pattern, model, fix_complexity) ==
    LET ai == Max(0, Min(One, ai_confidence))
        model_multiplier == MODEL_MULTIPLIERS_get(normalize_model_name(model))
        a1 == (ai * model_multiplier) \div 100
        complexity_penalty ==
            IF fix_complexity <= 5 THEN 0 ELSE IF fix_complexity <= 10 THEN 15 ELSE 30
        a2 == (a1 * (100 - complexity_penalty)) \div 100
        test_boost == IF test_passed THEN 150000 ELSE 0
        a3 == Min(a2 + test_boost, One)
        pattern_boost == get_pattern_boost(pattern)
        a4 == Min(a3 + pattern_boost, One)
        a5 == Max(0, Min(One, a4))
    IN  [confidence |-> a5,
         raw_confidence |-> ai,
         model_multiplier |-> model_multiplier,
         test_boost |-> test_boost,
         pattern_boost |-> pattern_boost,
         complexity_penalty |-> complexity_penalty,
         recommendation |-> IF a5 >= 900000 THEN "CREATE_PR"
                            ELSE IF a5 >= 750000 THEN "CREATE_DRAFT_PR"
                            ELSE IF a5 >= 500000 THEN "COMMENT_ONLY" ELSE "SKIP",
         steps |-> <<a1, a2, a3, a4, a5>>]

\* The field "steps" records the running value of adjusted_confidence after
\* each assignment to it (lines 69, 73, 77, 81, 84).
calculate_confidence(ai_confidence, test_passed, pattern, model, fix_complexity) ==
    LET ai == Clamp01(ai_confidence)
        model_multiplier == MODEL_MULTIPLIERS_get(normalize_model_name(model))
        a1 == (ai * model_multiplier) \div 100
        test_boost == test_boost_of(test_passed)
        a2 == Min(a1 + test_boost, One)
        pattern_boost == get_pattern_boost(pattern)
        a3 == Min(a2 + pattern_boost, One)
        complexity_penalty == calculate_complexity_penalty(fix_complexity)
        a4 == (a3 * (100 - complexity_penalty)) \div 100
        a5 == Clamp01(a4)
    IN  [confidence |-> a5,
         raw_confidence |-> ai,
         model_multiplier |-> model_multiplier,
         test_boost |-> test_boost,
         pattern_boost |-> pattern_boost,
         complexity_penalty |-> complexity_penalty,
         recommendation |-> get_recommendation(a5),
         steps |-> <<a1, a2, a3, a4, a5>>]

----------------------------------------------------------------------------
(* Inputs of the scorer *)

\* raw confidences from -0.1 (below the range) to above 1.0
RawInputs == {100000 * k : k \in -1..MaxRawStep}

PatternInputs == {"missing_await", "module_not_found", "type_mismatch",
                  "selector_timeout", "navigation_timeout", "unknown", "flaky"}

EditInputs == -1..MaxEdit

OtherModels == {
    <<>>,
    <<"o","p","e","n","a","i","/">>,
    <<"g","p","t">>,
    <<"m","i","n","i">>,
    <<"c","h","a","t">>,
    <<"l","l","a","m","a","-","3">>,
    <<"o","1">>,
    <<"G","P","T","-","4","O">>,
    <<"M","i","s","t","r","a","l","/","M","i","x","t","r","a","l","-","8","x","7","b">>,
    <<"o","p","e","n","r","o","u","t","e","r","/","a","n","t","h","r","o","p","i","c","/",
      "c","l","a","u","d","e","-","3","-","5","-","s","o","n","n","e","t","-",
      "2","0","2","4","0","6","2","0">> }

ModelInputs == {MODEL_KEYS[i] : i \in 1..Len(MODEL_KEYS)} \cup OtherModels

\* one identifier for each multiplier the table can yield, and two unregistered ones
ScoreModels == {MODEL_KEYS[2], MODEL_KEYS[3], MODEL_KEYS[6], MODEL_KEYS[8], MODEL_KEYS[9],
                <<"l","l","a","m","a","-","3">>, <<>>}

NoScore == [recommendation |-> "none"]
\* mult_q is <<>> before the query and <<m>> after it
NoMult == <<>>

----------------------------------------------------------------------------
(* Failure records and the replies of the collaborators *)

Absent == "<absent>"

\* Entries of the failures list.  mapping = FALSE is an entry that is not a
\* JSON object (a string, a number, null).  line_kind tells whether
\* line_number is an integer, absent, or a string.
FailureRecords == {
    [mapping |-> TRUE, test_name |-> "t_await", file_path |-> "tests/a.spec.js",
     line_kind |-> "int", line_number |-> 3, suggested_pattern |-> "missing_await"],
    [mapping |-> TRUE, test_name |-> "t_plain", file_path |-> "tests/b.spec.js",
     line_kind |-> "absent", line_number |-> 0, suggested_pattern |-> Absent],
    [mapping |-> TRUE, test_name |-> "t_nopath", file_path |-> Absent,
     line_kind |-> "int", line_number |-> 1, suggested_pattern |-> "type_mismatch"],
    [mapping |-> TRUE, test_name |-> "t_badline", file_path |-> "tests/c.spec.js",
     line_kind |-> "str", line_number |-> 0, suggested_pattern |-> "selector_timeout"],
    [mapping |-> FALSE, test_name |-> Absent, file_path |-> Absent,
     line_kind |-> "absent", line_number |-> 0, suggested_pattern |-> Absent] }

\* what repo_dir.file(path).contents() does: returns text, returns "", or raises
FileOutcomes == {"text", "empty", "unreadable"}

\* What litellm.completion does: it raises, or it returns a reply.  A reply is
\* described by what json.loads makes of its narrowed payload:
\*   json = "invalid" (does not parse), "list" (parses, not a mapping), "object".
\* For an object: whether fixed_code is present, whether it is a string and of
\* how many lines, the confidence field: "absent", "num" (value conf),
\* or "null", and the explanation field: "absent", "str" or "null".
NoReply == [json |-> "none", has_code |-> FALSE, code_str |-> FALSE, lines |-> 0,
            conf_kind |-> "absent", conf |-> 0, expl |-> "absent"]

Replies ==
    {[NoReply EXCEPT !.json = j] : j \in {"invalid", "list"}}
    \cup {[NoReply EXCEPT !.json = "object"]}
    \cup {[NoReply EXCEPT !.json = "object", !.has_code = TRUE, !.code_str = TRUE,
                          !.lines = 1, !.conf_kind = "null"]}
    \cup {[NoReply EXCEPT !.json = "object", !.has_code = TRUE, !.code_str = FALSE,
                          !.conf_kind = "num", !.conf = 900000]}
    \cup {[json |-> "object", has_code |-> TRUE, code_str |-> TRUE, lines |-> k[1],
           conf_kind |-> k[2], conf |-> k[3], expl |-> k[4]] :
              k \in {<<8, "absent", 0, "absent">>, <<1, "num", 1500000, "str">>}}

\* what the container run does: the run returns and the reporter's stats say
\* passed or not, or the run raises with a test-failure or an infrastructure message
SandboxOutcomes == {"passed", "not_passed", "raise_exit_code_1", "raise_infra"}

NoFix == [present |-> FALSE, code_str |-> FALSE, lines |-> 0, confidence |-> 0,
          pattern |-> Absent]
NoTest == [present |-> FALSE, passed |-> FALSE, error |-> Absent, output_len |-> 0]
NoReport == [status |-> "none"]

----------------------------------------------------------------------------
(* fix_generator.py *)

\* _extract_context, lines 203-211: a truthy line_number that is not a number
\* makes  line_number - 3  raise TypeError
extract_context_raises(failure) == failure.line_kind = "str"

\* The reply text of _parse_response, lines 231-253.  A text is a sequence
\* of tokens: "FENCE" (three backticks), "json" (the tag), "NL" (a newline),
\* "x" (a word of prose), "{", "}", "QUOTE" (a double quote), ":", a key
\* name, "a" (any other character of a fix).  Positions are 0-based as in Python.

\* text.find(pat, from): the first position >= from where pat occurs, else -1
Find(text, pat, from) ==
    LET hits == {i \in from..(Len(text) - Len(pat)) :
                    SubSeq(text, i + 1, i + Len(pat)) = pat}
    IN  IF hits = {} THEN -1 ELSE CHOOSE i \in hits : \A j \in hits : i <= j

\* text.rfind(pat): the last position where pat occurs, else -1
RFind(text, pat) ==
    LET hits == {i \in 0..(Len(text) - Len(pat)) :
                    SubSeq(text, i + 1, i + Len(pat)) = pat}
    IN  IF hits = {} THEN -1 ELSE CHOOSE i \in hits : \A j \in hits : i >= j

\* text[start:end] for start >= 0; a negative end counts from the end
PySlice(text, start, end) ==
    LET e == IF end < 0 THEN Max(Len(text) + end, 0) ELSE Min(end, Len(text))
    IN  SubSeq(text, start + 1, e)

\* text.strip(): leading and trailing whitespace removed
RECURSIVE Strip(_)
Strip(text) ==
    IF text = <<>> THEN text
    ELSE IF Head(text) = "NL" THEN Strip(Tail(text))
    ELSE IF text[Len(text)] = "NL" THEN Strip(SubSeq(text, 1, Len(text) - 1))
    ELSE text

FenceJson == <<"FENCE", "json">>
Fence == <<"FENCE">>

\* lines 236-244: the text between the opening fence and the next fence
unfence(text) ==
    IF Find(text, FenceJson, 0) >= 0
    THEN LET start == Find(text, FenceJson, 0) + 2
             end == Find(text, Fence, start)
         IN  Strip(PySlice(text, start, end))
    ELSE IF Find(text, Fence, 0) >= 0
    THEN LET start == Find(text, Fence, 0) + 1
             end == Find(text, Fence, start)
         IN  Strip(PySlice(text, start, end))
    ELSE text

\* lines 247-250: from the first "{" to the last "}"
narrow_braces(text) ==
    IF Find(text, <<"{">>, 0) >= 0 /\ Find(text, <<"}">>, 0) >= 0
    THEN PySlice(text, Find(text, <<"{">>, 0), RFind(text, <<"}">>) + 1)
    ELSE text

\* the serialization of an object with one string member
Serialize(key, value) == <<"{", "QUOTE", key, "QUOTE", ":", "QUOTE">> \o value \o <<"QUOTE", "}">>

\* line 253, json.loads, on the texts drawn here: an object with one string
\* member parses to that member, anything else raises JSONDecodeError
json_loads(text) ==
    IF /\ Len(text) >= 8
       /\ SubSeq(text, 1, 2) = <<"{", "QUOTE">>
       /\ SubSeq(text, 4, 6) = <<"QUOTE", ":", "QUOTE">>
       /\ SubSeq(text, Len(text) - 1, Len(text)) = <<"QUOTE", "}">>
       /\ \A i \in 7..(Len(text) - 2) : text[i] \notin {"QUOTE", "NL"}
    THEN [ok |-> TRUE, key |-> text[3], value |-> SubSeq(text, 7, Len(text) - 2)]
    ELSE [ok |-> FALSE, key |-> "", value |-> <<>>]

\* lines 231-278 on a reply text: the fix with its fixed_code, or None
parse_response_text(response_text) ==
    LET data == json_loads(narrow_braces(unfence(Strip(response_text)))) IN
    IF ~data.ok THEN [kind |-> "none", fixed_code |-> <<>>]
    ELSE IF data.key # "fixed_code" THEN [kind |-> "none", fixed_code |-> <<>>]
    ELSE [kind |-> "fix", fixed_code |-> data.value]

\* the fixed_code strings drawn: up to MaxCodeLen tokens, braces and triple
\* backticks among them
CodeTokens == {"a", "{", "}", "FENCE"}

CodeInputs == UNION {[1..n -> CodeTokens] : n \in 0..MaxCodeLen}

\* the reply texts drawn: optional prose, an opening fence with or without
\* the tag (or no fence at all), the object, the closing fence, optional prose
TextInputs ==
    [prose : {<<>>, <<"x">>, <<"x", "{", "x", "}", "NL">>},
     fence : {"json", "plain", "none"},
     key : {"fixed_code", "explanation"},
     code : CodeInputs,
     trailing : {<<>>, <<"NL", "x">>}]

Render(t) ==
    t.prose
    \o (CASE t.fence = "json" -> FenceJson \o <<"NL">>
          [] t.fence = "plain" -> Fence \o <<"NL">>
          [] OTHER -> <<>>)
    \o Serialize(t.key, t.code)
    \o (IF t.fence = "none" THEN <<>> ELSE <<"NL">> \o Fence)
    \o t.trailing

NoTextIn == [prose |-> <<>>, fence |-> "none", key |-> "", code |-> <<>>, trailing |-> <<>>]

NoText == [kind |-> "not_called", fixed_code |-> <<>>]

\* line 264, float(data["confidence"]): the exception it raises, if any.
\* conf_kind is "num" (a JSON number), "str_num" (a string that float()
\* reads as the number conf), "str" (any other string: ValueError), "null"
\* or "list" (float(None), float([...]): TypeError)
float_raises(conf_kind) ==
    CASE conf_kind \in {"null", "list"} -> "TypeError"
      [] conf_kind = "str" -> "ValueError"
      [] OTHER -> "none"

\* line 275: except (json.JSONDecodeError, ValueError, KeyError);
\* JSONDecodeError is a ValueError
parse_response_catches(exc) == exc \in {"JSONDecodeError", "ValueError", "KeyError"}

\* _parse_response on a reply: "none" (returns None), "raise" (an exception
\* that its except clause does not catch: float(None) is a TypeError), or "fix"
parse_response_outcome(reply) ==
    IF reply.json = "invalid"
    THEN (IF parse_response_catches("JSONDecodeError") THEN "none" ELSE "raise")
    ELSE IF reply.json # "object" THEN "none"
    ELSE IF ~reply.has_code THEN "none"
    ELSE IF reply.conf_kind = "absent" THEN "fix"
    ELSE IF float_raises(reply.conf_kind) = "none" THEN "fix"
    ELSE IF parse_response_catches(float_raises(reply.conf_kind)) THEN "none"
    ELSE "raise"

\* the confidence _parse_response stores: clamped when present, else 0.7
parse_response_confidence(reply) ==
    IF reply.conf_kind \in {"num", "str_num"} THEN Max(0, Min(One, reply.conf)) ELSE 700000

\* the replies _parse_response is called on by itself: every shape of the
\* parsed payload, of fixed_code and of confidence
ParseCodeShapes == {<<FALSE, FALSE, 0>>, <<TRUE, FALSE, 0>>, <<TRUE, TRUE, 1>>,
                    <<TRUE, TRUE, 6>>, <<TRUE, TRUE, 11>>}

ParseConfShapes ==
    {<<"absent", 0>>, <<"null", 0>>, <<"list", 0>>, <<"str", 0>>,
     <<"str_num", 800000>>, <<"str_num", 1500000>>}
    \cup {<<"num", c>> : c \in {-500000, 0, 300000, 700000, 1000000, 1500000}}

ParseReplies ==
    {[NoReply EXCEPT !.json = j] : j \in {"invalid", "list", "scalar", "null"}}
    \cup {[json |-> "object", has_code |-> c[1], code_str |-> c[2], lines |-> c[3],
           conf_kind |-> k[1], conf |-> k[2], expl |-> e] :
              c \in ParseCodeShapes, k \in ParseConfShapes, e \in {"absent", "str", "null"}}

\* faulty variant: the explanation is left as the reply has it
parse_response_explanation_Kept(reply) == reply.expl

\* lines 270-271: the placeholder, when the key is not in the mapping
parse_response_explanation(reply) ==
    IF reply.expl = "absent" THEN "AI-generated fix" ELSE reply.expl

\* lines 231-278: what the call gives: None, an exception, or the mapping
\* with its confidence made a float in [0, 1], its explanation, and the
\* fixed_code of the reply (whether it is a string, and its lines)
parse_response(reply) ==
    [kind |-> parse_response_outcome(reply),
     exc |-> IF parse_response_outcome(reply) = "raise"
             THEN float_raises(reply.conf_kind) ELSE "none",
     confidence |-> IF parse_response_outcome(reply) = "fix"
                    THEN parse_response_confidence(reply) ELSE -1,
     explanation |-> IF parse_response_outcome(reply) = "fix"
                     THEN parse_response_explanation(reply) ELSE "none",
     code_str |-> parse_response_outcome(reply) = "fix" /\ reply.code_str,
     lines |-> IF parse_response_outcome(reply) = "fix" THEN reply.lines ELSE 0]

\* generate_fix after request building: call the model, parse the reply.
\* called = FALSE stands for litellm.completion raising.  Every exception
\* raised inside the try block gives None.
generate_fix(failure, called, reply) ==
    IF ~called THEN NoFix
    ELSE IF parse_response_outcome(reply) # "fix" THEN NoFix
    ELSE [present |-> TRUE, code_str |-> reply.code_str, lines |-> reply.lines,
          confidence |-> parse_response_confidence(reply),
          pattern |-> IF failure.suggested_pattern = Absent THEN "unknown"
                      ELSE failure.suggested_pattern]

----------------------------------------------------------------------------
(* test_runner.py *)

\* the length in characters of what the run produced: the reporter's stdout
\* when the run returns, the message of the exception when it raises
raw_output_len(outcome) ==
    CASE outcome = "passed" -> 1500
      [] outcome = "not_passed" -> 1000
      [] outcome = "raise_exit_code_1" -> 1001
      [] OTHER -> 90

\* faulty variant: the output is returned whole
excerpt_len_Whole(len) == len

\* lines 84, 97, 106: output[:1000]
excerpt_len(len) == Min(len, 1000)

\* lines 44-109: the whole body is inside try / except Exception, so every
\* outcome gives a result mapping
run_test(outcome) ==
    CASE outcome = "passed" ->
            [present |-> TRUE, passed |-> TRUE, error |-> Absent,
             output_len |-> excerpt_len(raw_output_len(outcome))]
      [] outcome = "not_passed" ->
            [present |-> TRUE, passed |-> FALSE, error |-> Absent,
             output_len |-> excerpt_len(raw_output_len(outcome))]
      [] outcome = "raise_exit_code_1" ->
            [present |-> TRUE, passed |-> FALSE, error |-> "Tests failed",
             output_len |-> excerpt_len(raw_output_len(outcome))]
      [] OTHER ->
            [present |-> TRUE, passed |-> FALSE, error |-> "Container execution error",
             output_len |-> excerpt_len(raw_output_len(outcome))]

----------------------------------------------------------------------------
(* main.py : attempt_fix *)

\* Python's  lst[:k]
SliceTo(lst, k) ==
    IF k >= 0 THEN SubSeq(lst, 1, Min(k, Len(lst)))
    ELSE SubSeq(lst, 1, Max(Len(lst) + k, 0))

\* faulty variant: the handler catches only what _parse_response catches
except_Exception_Narrow(exc) == exc \in {"ValueError", "KeyError"}

\* line 154: except Exception
except_Exception(exc) == exc \in {"TypeError", "AttributeError", "ValueError", "KeyError"}

\* faulty variant: every scored fix is kept
meets_threshold_Always(final_confidence, threshold) == TRUE

\* faulty variant: a fix up to 0.30 below the threshold is kept
meets_threshold_Lenient(final_confidence, threshold) ==
    final_confidence >= threshold - 300000

\* line 136
meets_threshold(final_confidence, threshold) == final_confidence >= threshold

\* failure.get("suggested_pattern", "unknown"), line 125
pattern_for_scoring(failure) ==
    IF failure.suggested_pattern = Absent THEN "unknown" ELSE failure.suggested_pattern

\* how an item ends: "skipped" (no file path, or no file content), "no_fix"
\* (generate_fix returned None), "errored" (exception caught at line 154),
\* "rejected" and "accepted"
Terminal == {"accepted", "rejected", "skipped", "no_fix", "errored"}

SetAt(seq, i, v) == [seq EXCEPT ![i] = v]

\* faulty variant: the same item is taken again
NextItem_Again ==
    /\ idx' = idx
    /\ pc' = "item"
    /\ fix_data' = NoFix
    /\ test_result' = NoTest

\* the loop moves to the next item, or leaves the loop after the last one
NextItem ==
    /\ idx' = idx + 1
    /\ pc' = IF idx + 1 > Len(ftp) THEN "summary" ELSE "item"
    /\ fix_data' = NoFix
    /\ test_result' = NoTest

\* an exception raised inside the try block of the current item (lines 85-156)
RaiseInItem(exc) ==
    IF except_Exception(exc)
    THEN /\ item_state' = SetAt(item_state, idx, "errored")
         /\ NextItem
         /\ UNCHANGED status
    ELSE /\ item_state' = SetAt(item_state, idx, "raised")
         /\ status' = "raised"
         /\ pc' = "done"
         /\ UNCHANGED <<idx, fix_data, test_result>>

\* the configurations drawn: the defaults (gpt-4o-mini, 0.75) and a cheaper
\* model with a lower threshold (deepseek-chat, 0.50)
BatchConfigs == {<<MODEL_KEYS[3], 750000>>, <<MODEL_KEYS[8], 500000>>}

\* the values of max_failures drawn: negative, zero, shorter than the longest
\* list, and the default
MaxFailuresInputs == {-1, 0, 2, 5}

\* attempt_fix has just been called
BatchStart ==
    /\ pc = "start"
    /\ status = "idle"
    /\ ftp = <<>>
    /\ idx = 0
    /\ fix_data = NoFix
    /\ test_result = NoTest
    /\ results = <<>>
    /\ report = NoReport
    /\ item_state = <<>>
    /\ item_final = <<>>
    /\ model_calls = <<>>
    /\ sandbox_runs = <<>>

InitBatch ==
    /\ failures \in UNION {[1..n -> FailureRecords] : n \in 0..MaxFailures}
    /\ \E c \in BatchConfigs : ai_model = c[1] /\ min_confidence = c[2]
    /\ max_failures \in MaxFailuresInputs
    /\ BatchStart

\* lines 61-79: read the failures JSON, return early when there is nothing
\* to do, else cut the list to its prefix
ReadFailures ==
    /\ pc = "start"
    /\ \E readable \in BOOLEAN :
        IF ~readable \/ failures = <<>>
        THEN /\ status' = "no_failures"
             /\ report' = [status |-> "no_failures"]
             /\ pc' = "done"
             /\ UNCHANGED <<ftp, idx, item_state, item_final, model_calls, sandbox_runs>>
        ELSE /\ status' = "running"
             /\ ftp' = SliceTo(failures, max_failures)
             /\ idx' = 1
             /\ pc' = IF Len(ftp') = 0 THEN "summary" ELSE "item"
             /\ item_state' = [i \in 1..Len(ftp') |-> "pending"]
             /\ item_final' = [i \in 1..Len(ftp') |-> -1]
             /\ model_calls' = [i \in 1..Len(ftp') |-> 0]
             /\ sandbox_runs' = [i \in 1..Len(ftp') |-> 0]
             /\ UNCHANGED report
    /\ UNCHANGED <<failures, ai_model, min_confidence, max_failures, fix_data, test_result,
                   results, scorerVars, prVars, parseVars>>

\* lines 82-90: the header line of the item (outside the try block), then the
\* file path of the record
ItemBegin ==
    /\ pc = "item"
    /\ LET failure == ftp[idx] IN
        IF ~failure.mapping
        THEN \* failure.get raises AttributeError at line 83, outside the try block
             /\ status' = "raised"
             /\ pc' = "done"
             /\ item_state' = SetAt(item_state, idx, "raised")
             /\ UNCHANGED <<idx, fix_data, test_result>>
        ELSE IF failure.file_path = Absent
        THEN /\ item_state' = SetAt(item_state, idx, "skipped")
             /\ NextItem
             /\ UNCHANGED status
        ELSE /\ pc' = "read"
             /\ UNCHANGED <<idx, fix_data, test_result, status, item_state>>
    /\ UNCHANGED <<failures, ai_model, min_confidence, max_failures, ftp, results, report,
                   item_final, model_calls, sandbox_runs, scorerVars, prVars, parseVars>>

\* lines 92-97: await self._read_file, which returns "" when the read raises
ReadFile ==
    /\ pc = "read"
    /\ \E outcome \in FileOutcomes :
        IF outcome # "text"
        THEN /\ item_state' = SetAt(item_state, idx, "skipped")
             /\ NextItem
        ELSE /\ item_state' = SetAt(item_state, idx, "context_read")
             /\ pc' = "generate"
             /\ UNCHANGED <<idx, fix_data, test_result>>
    /\ UNCHANGED <<failures, ai_model, min_confidence, max_failures, status, ftp, results,
                   report, item_final, model_calls, sandbox_runs, scorerVars, prVars, parseVars>>

\* lines 99-107: await fix_generator.generate_fix
GenerateFix ==
    /\ pc = "generate"
    /\ LET failure == ftp[idx] IN
        IF extract_context_raises(failure)
        THEN /\ RaiseInItem("TypeError")
             /\ UNCHANGED model_calls
        ELSE \E called \in BOOLEAN, reply \in Replies :
             /\ model_calls' = SetAt(model_calls, idx, model_calls[idx] + 1)
             /\ LET fd == generate_fix(failure, called, reply) IN
                 IF ~fd.present
                 THEN /\ item_state' = SetAt(item_state, idx, "no_fix")
                      /\ NextItem
                      /\ UNCHANGED status
                 ELSE /\ item_state' = SetAt(item_state, idx, "fix_generated")
                      /\ fix_data' = fd
                      /\ pc' = "test"
                      /\ UNCHANGED <<idx, test_result, status>>
    /\ UNCHANGED <<failures, ai_model, min_confidence, max_failures, ftp, results, report,
                   item_final, sandbox_runs, scorerVars, prVars, parseVars>>

\* lines 109-118: await test_runner.run_test
RunTest ==
    /\ pc = "test"
    /\ \E outcome \in SandboxOutcomes :
        /\ test_result' = run_test(outcome)
        /\ sandbox_runs' = SetAt(sandbox_runs, idx, sandbox_runs[idx] + 1)
        /\ item_state' = SetAt(item_state, idx, "verified")
        /\ pc' = "score"
    /\ UNCHANGED <<failures, ai_model, min_confidence, max_failures, status, ftp, idx,
                   fix_data, results, report, item_final, model_calls, scorerVars, prVars, parseVars>>

\* lines 120-152: score the fix, keep it when it meets the threshold
ScoreAndDecide ==
    /\ pc = "score"
    /\ LET failure == ftp[idx] IN
        IF ~fix_data.code_str
        THEN \* fix_data["fixed_code"].split raises AttributeError at line 121
             /\ RaiseInItem("AttributeError")
             /\ UNCHANGED <<results, item_final>>
        ELSE LET confidence_result ==
                     calculate_confidence(fix_data.confidence, test_result.passed,
                                          pattern_for_scoring(failure), ai_model,
                                          fix_data.lines)
                 final_confidence == confidence_result.confidence
             IN  /\ item_final' = SetAt(item_final, idx, final_confidence)
                 /\ IF meets_threshold(final_confidence, min_confidence)
                    THEN /\ results' = Append(results,
                                [test_name |-> failure.test_name,
                                 file |-> failure.file_path,
                                 pattern |-> failure.suggested_pattern,
                                 fix_lines |-> fix_data.lines,
                                 ai_confidence |-> fix_data.confidence,
                                 final_confidence |-> final_confidence,
                                 recommendation |-> confidence_result.recommendation,
                                 test_passed |-> test_result.passed])
                         /\ item_state' = SetAt(item_state, idx, "accepted")
                    ELSE /\ results' = results
                         /\ item_state' = SetAt(item_state, idx, "rejected")
                 /\ NextItem
                 /\ UNCHANGED status
    /\ UNCHANGED <<failures, ai_model, min_confidence, max_failures, ftp, report,
                   model_calls, sandbox_runs, scorerVars, prVars, parseVars>>

RECURSIVE SumFinal(_)
SumFinal(rs) == IF rs = <<>> THEN 0 ELSE rs[1].final_confidence + SumFinal(Tail(rs))

\* faulty variant: the items that did not end in a score are left out
total_processed_Scored ==
    Cardinality({i \in 1..Len(item_state) : item_state[i] \in {"accepted", "rejected"}})

\* line 159: total_processed = len(failures_to_process)
total_processed == Len(ftp)

\* faulty variant: the sum is divided by the number of processed items
avg_confidence_OverProcessed(rs) ==
    IF rs # <<>> THEN [num |-> SumFinal(rs), den |-> Len(ftp)] ELSE [num |-> 0, den |-> 1]

\* line 161: sum(final_confidence) / len(results) if results else 0.0, kept as
\* the exact fraction num/den (in millionths)
avg_confidence(rs) ==
    IF rs # <<>> THEN [num |-> SumFinal(rs), den |-> Len(rs)] ELSE [num |-> 0, den |-> 1]

\* faulty variant: the mean of one value, or of two equal ones, is rounded too
float_mean_roundings_Any(rs) == {-1, 0, 1}

\* Lines 161 and 264 compute the mean in IEEE-754 doubles: the running sum
\* and the quotient are each rounded to the nearest double.  The model keeps
\* the exact fraction and, beside it, the sign of the difference between the
\* double computed and the fraction (ulp: -1 below, 0 equal, 1 above), a
\* difference smaller than any millionth.  x / 1 and (x + x) / 2 are exact, and
\* so are the sum and the mean of equal values with at most six binary
\* places (multiples of 1/64, 1.0 and 0.0 among them).  The sign is kept
\* where the exact mean equals a value it is compared with: the common value
\* of equal fixes, or the 0.90 of line 316; it then depends on bits of the
\* doubles that the millionths do not keep.  Elsewhere the mean is away
\* from every value it is compared with by more than any rounding and the
\* sign is recorded as 0.
float_mean_roundings(rs) ==
    IF Len(rs) <= 1 THEN {0}
    ELSE IF \A k \in 1..Len(rs) : rs[k].final_confidence = rs[1].final_confidence
         THEN (IF Len(rs) = 2 \/ rs[1].final_confidence % 15625 = 0
               THEN {0} ELSE {-1, 0, 1})
    ELSE IF SumFinal(rs) = 900000 * Len(rs) THEN {-1, 0, 1}
    ELSE {0}

\* a mean as the program holds it: the exact fraction and its rounding
Rounded(q, e) == [num |-> q.num, den |-> q.den, ulp |-> e]

\* lines 158-178: the summary and the returned report
Summarize ==
    /\ pc = "summary"
    /\ \E e \in float_mean_roundings(results) :
        report' = [status |-> "completed",
                   total_failures |-> Len(failures),
                   processed |-> total_processed,
                   fixes_generated |-> Len(results),
                   average_confidence |-> Rounded(avg_confidence(results), e),
                   model |-> ai_model,
                   threshold |-> min_confidence,
                   fixes |-> results]
    /\ status' = "completed"
    /\ pc' = "done"
    /\ UNCHANGED <<failures, ai_model, min_confidence, max_failures, ftp, idx, fix_data,
                   test_result, results, item_state, item_final, model_calls, sandbox_runs,
                   scorerVars, prVars, parseVars>>

ScorerIdle ==
    /\ in_raw = 0
    /\ in_passed = FALSE
    /\ in_pattern = "unknown"
    /\ in_model = <<>>
    /\ in_size = 1
    /\ spc = "idle"
    /\ score = NoScore
    /\ mult_q = NoMult

BatchIdle ==
    /\ failures = <<>>
    /\ ai_model = <<>>
    /\ min_confidence = 750000
    /\ max_failures = 5
    /\ pc = "idle"
    /\ status = "idle"
    /\ ftp = <<>>
    /\ idx = 0
    /\ fix_data = NoFix
    /\ test_result = NoTest
    /\ results = <<>>
    /\ report = NoReport
    /\ item_state = <<>>
    /\ item_final = <<>>
    /\ model_calls = <<>>
    /\ sandbox_runs = <<>>

NoParse == [kind |-> "not_called", exc |-> "none", confidence |-> -1]

PRIdle ==
    /\ ppc = "idle"
    /\ requests = <<>>
    /\ pr_local = [set |-> FALSE]
    /\ pr_report = NoReport

TextIdle ==
    /\ t_in = NoTextIn
    /\ t_out = NoText

NoContextIn == [lines |-> 0, chars |-> 0, given |-> FALSE, line_number |-> 0]

NoContext == [kind |-> "not_called"]

ContextIdle ==
    /\ x_in = NoContextIn
    /\ x_out = NoContext

ParseIdle ==
    /\ p_reply = NoReply
    /\ p_out = NoParse
    /\ TextIdle
    /\ ContextIdle

Init == InitBatch /\ ScorerIdle /\ caller = "attempt_fix" /\ PRIdle /\ ParseIdle

Next ==
    \/ ReadFailures
    \/ ItemBegin
    \/ ReadFile
    \/ GenerateFix
    \/ RunTest
    \/ ScoreAndDecide
    \/ Summarize

Spec == Init /\ [][Next]_vars

----------------------------------------------------------------------------
(* fix_and_create_pr, main.py lines 181-345, and the PRCreator methods it
   calls.  It awaits attempt_fix (the actions above, with the default
   max_failures), then resolves one action for the whole batch.  requests
   is the log of the requests sent to the source-hosting API. *)

\* longest failures list drawn for fix_and_create_pr
MaxPRFailures == 3

\* the issue_number argument
IssueNumber == 7

\* (model, threshold) pairs: the defaults (gpt-4o-mini, 0.75), gpt-4o-mini
\* with a threshold that lets comment-level fixes through, deepseek-chat
\* with one that lets skip-level fixes through
PRConfigs == {<<MODEL_KEYS[3], 750000>>, <<MODEL_KEYS[3], 500000>>, <<MODEL_KEYS[8], 400000>>}

\* the failure records drawn for fix_and_create_pr: one with a pattern, one
\* without, and an entry that is not a mapping
PRFailureRecords ==
    {f \in FailureRecords : f.line_kind # "str" /\ (f.mapping => f.file_path # Absent)}

\* the repository argument and the GITHUB_REPOSITORY variable: given as
\* owner/repo, taken from the environment, empty in both, or without a
\* single '/'
RepositoryInputs == {"given", "from_env", "unset", "malformed"}

\* faulty variant: an empty list of fixes is let through
no_fixes_StatusOnly(res) == res.status # "completed"

\* line 234: results["status"] != "completed" or not results["fixes"]
no_fixes(res) == res.status # "completed" \/ res.fixes = <<>>

\* line 264: sum(final_confidence) / len(fixes), kept as the exact fraction
overall_confidence_of(fixes) == [num |-> SumFinal(fixes), den |-> Len(fixes)]

\* the rounding of a mean, 0 for an exact fraction
UlpOf(q) == IF "ulp" \in DOMAIN q THEN q.ulp ELSE 0

\* q < 0.90, for a fraction q of millionths
Below090(q) ==
    \/ q.num < 900000 * q.den
    \/ q.num = 900000 * q.den /\ UlpOf(q) < 0

\* faulty variant: the recommendation of the first fix decides
top_recommendation_First(fixes) == fixes[1].recommendation

\* lines 269-277: the highest recommendation present among the fixes
top_recommendation(fixes) ==
    LET recommendations == {fixes[k].recommendation : k \in 1..Len(fixes)} IN
    IF "CREATE_PR" \in recommendations THEN "CREATE_PR"
    ELSE IF "CREATE_DRAFT_PR" \in recommendations THEN "CREATE_DRAFT_PR"
    ELSE IF "COMMENT_ONLY" \in recommendations THEN "COMMENT_ONLY"
    ELSE "SKIP"

\* faulty variant: a comment-level batch goes to the pull-request branch
action_for_NoComment(top) == IF top = "SKIP" THEN "skipped" ELSE "create_pr"

\* lines 282, 291, 307: the branch of the if/elif/else taken
action_for(top) ==
    IF top = "SKIP" THEN "skipped"
    ELSE IF top = "COMMENT_ONLY" THEN "comment"
    ELSE "create_pr"

\* str() of a pattern in an f-string: None prints as "None"
pattern_str(p) == IF p = Absent THEN "None" ELSE p

\* lines 310-311: f"autofix/issue-{issue_number}-{primary_pattern}"
branch_name_of(fixes) == <<"autofix/issue-", IssueNumber, "-", pattern_str(fixes[1].pattern)>>

\* faulty variant: the mean is left out of the draft decision
main_is_draft_ByRecommendation(top, overall) == top = "CREATE_DRAFT_PR"

\* line 316: top_recommendation == "CREATE_DRAFT_PR" or overall_confidence < 0.90
main_is_draft(top, overall) == top = "CREATE_DRAFT_PR" \/ Below090(overall)

\* pr_creator.py line 64: is_draft = draft or confidence < 0.90
create_pr_is_draft(draft, confidence) == draft \/ Below090(confidence)

\* pr_creator.py lines 391-392: pattern.replace is called on the pattern of
\* every fix; a fix whose pattern is None makes it raise AttributeError
format_pr_raises(fixes) == \E k \in 1..Len(fixes) : fixes[k].pattern = Absent

\* faulty variant: a rejected comment request is reported as added
comment_status_AlwaysAdded(success) == "comment_added"

\* line 300: "comment_added" if success else "comment_failed"
comment_status(success) == IF success THEN "comment_added" ELSE "comment_failed"

\* a request sent to the hosting API: kind is "open_pr" (POST .../pulls),
\* "labels" (POST .../issues/n/labels) or "comment" (POST
\* .../issues/n/comments); head and draft are the payload of open_pr; covers
\* is the number of fixes the title and body were formatted from; ok tells
\* whether the API accepted it (raise_for_status did not raise)
Request(kind, head, draft, covers, ok) ==
    [kind |-> kind, head |-> head, draft |-> draft, covers |-> covers, ok |-> ok]

NoLocals == [set |-> FALSE]

\* faulty variant: the whole list is attempted
default_max_failures_All == Len(failures)

\* line 30: max_failures: int = 5; the call at lines 222-230 passes no
\* max_failures
default_max_failures == 5

\* a list longer than the cap: entries without a file path, which are
\* skipped, then two entries with a path
LongFailures ==
    {[i \in 1..MaxLongFailures |->
        IF i <= MaxLongFailures - 2
        THEN CHOOSE f \in FailureRecords : f.mapping /\ f.file_path = Absent
        ELSE CHOOSE f \in PRFailureRecords : f.suggested_pattern # Absent]}

InitPR ==
    /\ failures \in UNION {[1..n -> PRFailureRecords] : n \in 0..MaxPRFailures}
                    \cup LongFailures
    /\ \E c \in PRConfigs : ai_model = c[1] /\ min_confidence = c[2]
    /\ max_failures = default_max_failures
    /\ BatchStart
    /\ ScorerIdle
    /\ ParseIdle
    /\ caller = "fix_and_create_pr"
    /\ ppc = "attempt"
    /\ requests = <<>>
    /\ pr_local = NoLocals
    /\ pr_report = NoReport

\* lines 222-289: attempt_fix has returned or raised; its report is parsed
\* back (json.loads of json.dumps gives the same mappings, None for None),
\* the empty case returns, the repository is resolved, PRCreator is built,
\* the mean and the top recommendation are computed and the branch is chosen
ResolveAction ==
    /\ caller = "fix_and_create_pr"
    /\ ppc = "attempt"
    /\ pc = "done"
    /\ IF status = "raised"
       THEN \* the exception of attempt_fix propagates
            /\ ppc' = "raised"
            /\ UNCHANGED <<pr_local, pr_report>>
       ELSE IF no_fixes(report)
       THEN /\ pr_report' = [status |-> "no_fixes_generated",
                             message |-> "No fixes met the confidence threshold",
                             issue_number |-> IssueNumber]
            /\ ppc' = "done"
            /\ UNCHANGED pr_local
       ELSE \E repository \in RepositoryInputs :
            IF repository = "unset"
            THEN /\ pr_report' = [status |-> "error"]
                 /\ ppc' = "done"
                 /\ UNCHANGED pr_local
            ELSE IF repository = "malformed"
            THEN \* pr_creator.py line 23: the unpacking of split('/') raises ValueError
                 /\ ppc' = "raised"
                 /\ UNCHANGED <<pr_local, pr_report>>
            ELSE LET fixes == report.fixes
                     \* the same sum and quotient over the same doubles as line
                     \* 161 (json.dumps and json.loads keep every double)
                     overall_confidence == Rounded(overall_confidence_of(fixes),
                                                   report.average_confidence.ulp)
                     top == top_recommendation(fixes)
                 IN  /\ pr_local' = [set |-> TRUE, fixes |-> fixes,
                                     overall_confidence |-> overall_confidence,
                                     top_recommendation |-> top]
                     /\ IF action_for(top) = "skipped"
                        THEN /\ pr_report' = [status |-> "skipped",
                                              issue_number |-> IssueNumber,
                                              fixes_count |-> Len(fixes),
                                              average_confidence |-> overall_confidence]
                             /\ ppc' = "done"
                        ELSE /\ ppc' = action_for(top)
                             /\ UNCHANGED pr_report
    /\ UNCHANGED <<requests, caller, batchVars, scorerVars, parseVars>>

\* lines 293-305 and pr_creator.py lines 274-300: one POST of the comment
\* formatted from all fixes; a RequestException is caught and gives False
AddComment ==
    /\ ppc = "comment"
    /\ \E success \in BOOLEAN :
        /\ requests' = Append(requests,
                              Request("comment", <<>>, FALSE, Len(pr_local.fixes), success))
        /\ pr_report' = [status |-> comment_status(success),
                         issue_number |-> IssueNumber,
                         fixes_count |-> Len(pr_local.fixes),
                         average_confidence |-> pr_local.overall_confidence]
    /\ ppc' = "done"
    /\ UNCHANGED <<pr_local, caller, batchVars, scorerVars, parseVars>>

\* lines 310-325 and 338-345, pr_creator.py lines 59-82 and 104-120: the
\* title and the body are formatted outside the try block, then one POST
\* opens the pull request; a RequestException is caught and gives
\* success = False
CreatePR ==
    /\ ppc = "create_pr"
    /\ LET fixes == pr_local.fixes
           branch_name == branch_name_of(fixes)
           is_draft == main_is_draft(pr_local.top_recommendation,
                                     pr_local.overall_confidence)
       IN  IF format_pr_raises(fixes)
           THEN /\ ppc' = "raised"
                /\ UNCHANGED <<requests, pr_local, pr_report>>
           ELSE \E success \in BOOLEAN :
                /\ requests' = Append(requests,
                        Request("open_pr", branch_name,
                                create_pr_is_draft(is_draft, pr_local.overall_confidence),
                                Len(fixes), success))
                /\ pr_local' = [set |-> TRUE, fixes |-> fixes,
                                overall_confidence |-> pr_local.overall_confidence,
                                top_recommendation |-> pr_local.top_recommendation,
                                branch_name |-> branch_name, is_draft |-> is_draft]
                /\ IF success
                   THEN /\ ppc' = "labels"
                        /\ UNCHANGED pr_report
                   ELSE /\ pr_report' = [status |-> "pr_failed",
                                         issue_number |-> IssueNumber,
                                         fixes_count |-> Len(fixes)]
                        /\ ppc' = "done"
    /\ UNCHANGED <<caller, batchVars, scorerVars, parseVars>>

\* pr_creator.py lines 91 and 302-327, then main.py lines 327-337: one POST of
\* the labels, whose failure is caught and ignored, then the report
AddLabels ==
    /\ ppc = "labels"
    /\ \E labelled \in BOOLEAN :
        requests' = Append(requests, Request("labels", <<>>, FALSE, 0, labelled))
    /\ pr_report' = [status |-> "pr_created",
                     branch |-> pr_local.branch_name,
                     issue_number |-> IssueNumber,
                     fixes_applied |-> Len(pr_local.fixes),
                     average_confidence |-> pr_local.overall_confidence,
                     is_draft |-> pr_local.is_draft]
    /\ ppc' = "done"
    /\ UNCHANGED <<pr_local, caller, batchVars, scorerVars, parseVars>>

NextPR ==
    \/ ReadFailures
    \/ ItemBegin
    \/ ReadFile
    \/ GenerateFix
    \/ RunTest
    \/ ScoreAndDecide
    \/ Summarize
    \/ ResolveAction
    \/ AddComment
    \/ CreatePR
    \/ AddLabels

SpecPR == InitPR /\ [][NextPR]_vars

----------------------------------------------------------------------------
(* FixGenerator._parse_response called on arbitrary replies *)

InitParse ==
    /\ p_reply \in ParseReplies
    /\ p_out = NoParse
    /\ TextIdle
    /\ ContextIdle
    /\ ScorerIdle
    /\ BatchIdle
    /\ caller = "none"
    /\ PRIdle

ParseResponse ==
    /\ p_out = NoParse
    /\ p_reply # NoReply
    /\ p_out' = parse_response(p_reply)
    /\ UNCHANGED <<p_reply, t_in, t_out, x_in, x_out, scorerVars, batchVars, prVars>>

NextParse == ParseResponse

SpecParse == InitParse /\ [][NextParse]_vars

----------------------------------------------------------------------------
(* FixGenerator._parse_response called on reply texts *)

InitText ==
    /\ t_in \in TextInputs
    /\ t_out = NoText
    /\ p_reply = NoReply
    /\ p_out = NoParse
    /\ ContextIdle
    /\ ScorerIdle
    /\ BatchIdle
    /\ caller = "none"
    /\ PRIdle

ParseText ==
    /\ t_out = NoText
    /\ t_in # NoTextIn
    /\ t_out' = parse_response_text(Render(t_in))
    /\ UNCHANGED <<t_in, p_reply, p_out, x_in, x_out, scorerVars, batchVars, prVars>>

NextText == ParseText

SpecText == InitText /\ [][NextText]_vars

----------------------------------------------------------------------------
(* The scorer called on arbitrary inputs *)

InitScore ==
    /\ in_raw \in RawInputs
    /\ in_passed \in BOOLEAN
    /\ \/ /\ in_model \in ScoreModels
          /\ in_pattern \in PatternInputs
          /\ in_size \in EditInputs
       \/ /\ in_model \in ModelInputs
          /\ in_pattern \in {"missing_await", "unknown"}
          /\ in_size \in {2, 8}
    /\ spc = "ready"
    /\ score = NoScore
    /\ mult_q = NoMult
    /\ BatchIdle
    /\ caller = "none" /\ PRIdle /\ ParseIdle

CalculateConfidence ==
    /\ spc = "ready"
    /\ score' = calculate_confidence(in_raw, in_passed, in_pattern, in_model, in_size)
    /\ spc' = "scored"
    /\ UNCHANGED <<in_raw, in_passed, in_pattern, in_model, in_size, mult_q, batchVars, prVars, parseVars>>

GetModelMultiplier ==
    /\ mult_q = NoMult
    /\ mult_q' = <<get_model_multiplier(in_model)>>
    /\ UNCHANGED <<in_raw, in_passed, in_pattern, in_model, in_size, spc, score, batchVars, prVars, parseVars>>

NextScore == CalculateConfidence \/ GetModelMultiplier

SpecScore == InitScore /\ [][NextScore]_vars

----------------------------------------------------------------------------
(* Properties of the scorer, checked under SpecScore *)

Scored == spc = "scored"

InUnit(x) == x >= 0 /\ x <= One

\* C1: for every call of calculate_confidence, whatever the raw confidence
\* (also below 0 or above 1), test result, pattern, model and edit size, the
\* final confidence, the returned raw_confidence and the running adjusted
\* value after each step lie in [0,1].
C1_ConfidenceInRange ==
    Scored =>
        /\ InUnit(score.confidence)
        /\ InUnit(score.raw_confidence)
        /\ \A i \in 1..Len(score.steps) : InUnit(score.steps[i])

\* a call with a raw confidence above 1, a passed test, a boosted pattern and
\* a negative edit size: every boost stacks and the result is exactly 1
C1_Witness ==
    /\ Scored
    /\ in_raw > One
    /\ in_passed
    /\ in_pattern = "missing_await"
    /\ in_size < 0
    /\ score.confidence = One

RecommendationOf(c) ==
    IF c >= 900000 THEN "CREATE_PR"
    ELSE IF c >= 750000 THEN "CREATE_DRAFT_PR"
    ELSE IF c >= 500000 THEN "COMMENT_ONLY"
    ELSE "SKIP"

gpt_4o == <<"g","p","t","-","4","o">>
deepseek_chat == <<"d","e","e","p","s","e","e","k","-","c","h","a","t">>

C3_RecommendationBands ==
    Scored =>
        LET c == score.confidence
            r == score.recommendation
        IN  /\ r \in {"CREATE_PR", "CREATE_DRAFT_PR", "COMMENT_ONLY", "SKIP"}
            /\ (r = "CREATE_PR") <=> (c >= 900000)
            /\ (r = "CREATE_DRAFT_PR") <=> (c >= 750000 /\ c < 900000)
            /\ (r = "COMMENT_ONLY") <=> (c >= 500000 /\ c < 750000)
            /\ (r = "SKIP") <=> (c < 500000)

\* a final confidence of exactly 0.90 is recommended as CREATE_PR
C3_Witness ==
    /\ Scored
    /\ score.confidence = 900000
    /\ score.recommendation = "CREATE_PR"

\* the identifier names no registered model: its normalized name is not a
\* key of the table and contains none
NamesNoRegisteredModel(model) ==
    LET n == LastPart(Lower(model))
    IN  \A i \in 1..Len(MODEL_KEYS) : n # MODEL_KEYS[i] /\ ~Contains(n, MODEL_KEYS[i])

\* C4: every model identifier that names no registered model (also the
\* empty identifier, one ending in "/", and a fragment such as "gpt", "mini"
\* or "chat") is given the multiplier 0.60 by get_model_multiplier and by
\* calculate_confidence.
C4_UnknownModelGets060 ==
    NamesNoRegisteredModel(in_model) =>
        /\ (mult_q # NoMult => mult_q[1] = 60)
        /\ (Scored => score.model_multiplier = 60)

\* C5: for every key k of the table returned by get_supported_models,
\* get_model_multiplier(k) and the model_multiplier reported by
\* calculate_confidence(model = k) equal the table's value for k.
C5_RegisteredKeyGetsItsValue ==
    \A kv \in get_supported_models :
        in_model = kv[1] =>
            /\ (mult_q # NoMult => mult_q[1] = kv[2])
            /\ (Scored => score.model_multiplier = kv[2])

\* C6: with all other inputs equal, the final confidence with
\* test_passed = true is >= the final confidence with test_passed = false.
C6_TestPassedMonotone ==
    Scored =>
        LET other == calculate_confidence(in_raw, ~in_passed, in_pattern, in_model,
                                          in_size).confidence
        IN  IF in_passed THEN score.confidence >= other
            ELSE other >= score.confidence

\* a passed test that scores strictly higher than the same fix with a failed
\* test, on an edit that is penalized
C6_Witness ==
    /\ Scored
    /\ in_passed
    /\ in_size > 10
    /\ score.confidence >
         calculate_confidence(in_raw, FALSE, in_pattern, in_model, in_size).confidence

StepPenalty(n) == IF n <= 5 THEN 0 ELSE IF n <= 10 THEN 15 ELSE 30

ConfidenceAt(size) ==
    calculate_confidence(in_raw, in_passed, in_pattern, in_model, size).confidence

\* C7 as stated: the penalty is 0 up to 5 lines, 0.15 for 6..10, 0.30 above;
\* the score at 6 lines is strictly less than at 5 lines and the score at 11
\* lines strictly less than at 10 lines, by the factors 0.85 and 0.70 on the
\* pre-penalty score.
C7_StrictlyLess ==
    Scored =>
        /\ score.complexity_penalty = StepPenalty(in_size)
        /\ score.confidence = (score.steps[3] * (100 - StepPenalty(in_size))) \div 100
        /\ in_size = 6 => ConfidenceAt(5) > score.confidence
        /\ in_size = 11 => ConfidenceAt(10) > score.confidence

\* C7, amended: the penalty is the step function 0 / 0.15 / 0.30, the final
\* score is the pre-penalty score times 1, 0.85 or 0.70, the score at 5 lines
\* is >= the score at 6 and the score at 10 is >= the score at 11, and the
\* larger edit's score is strictly less exactly when the pre-penalty score is
\* greater than 0.
C7_StepPenalty ==
    Scored =>
        /\ score.complexity_penalty = StepPenalty(in_size)
        /\ score.confidence = (score.steps[3] * (100 - StepPenalty(in_size))) \div 100
        /\ in_size = 6 =>
              /\ ConfidenceAt(5) = score.steps[3]
              /\ ConfidenceAt(5) >= score.confidence
              /\ (ConfidenceAt(5) > score.confidence) <=> (score.steps[3] > 0)
        /\ in_size = 11 =>
              /\ ConfidenceAt(10) = (score.steps[3] * 85) \div 100
              /\ ConfidenceAt(10) >= score.confidence
              /\ (ConfidenceAt(10) > score.confidence) <=> (score.steps[3] > 0)

\* a 6-line edit of a fix with a positive pre-penalty score
C7_Witness ==
    /\ Scored
    /\ in_size = 6
    /\ score.steps[3] = 800000
    /\ score.confidence = 680000

----------------------------------------------------------------------------
(* Properties of attempt_fix, checked under Spec *)

Items == 1..Len(item_state)

\* C8: a scored fix is appended to the accepted list iff its final
\* confidence >= min_confidence; every entry of 'fixes' has final_confidence
\* >= threshold and no skipped, errored or below-threshold item is in 'fixes'.
C8_AcceptedIffThreshold ==
    /\ \A k \in 1..Len(results) : results[k].final_confidence >= min_confidence
    /\ \A i \in Items :
        /\ (item_state[i] = "accepted") <=>
                (item_final[i] # -1 /\ item_final[i] >= min_confidence)
        /\ (item_state[i] = "rejected") <=>
                (item_final[i] # -1 /\ item_final[i] < min_confidence)
    /\ Len(results) = Cardinality({i \in Items : item_state[i] = "accepted"})
    /\ status = "completed" =>
        /\ report.fixes = results
        /\ \A k \in 1..Len(report.fixes) :
              report.fixes[k].final_confidence >= report.threshold

\* a completed batch with an accepted fix scored exactly at the threshold, a
\* rejected one and a skipped one
C8_Witness ==
    /\ status = "completed"
    /\ \E i, j, k \in Items :
        /\ item_state[i] = "accepted" /\ item_final[i] < 900000
        /\ item_state[j] = "rejected"
        /\ item_state[k] = "skipped"
    /\ Len(report.fixes) = 1

\* C9: an exception raised while an item is processed (request building,
\* scoring, and the stages whose exceptions the collaborators turn into an
\* empty result) is caught at the item boundary: it never escapes
\* attempt_fix, the accepted fixes are kept unchanged, the loop goes on with
\* the next item, every item of the prefix is dealt with in order, and the
\* report is 'completed' with processed = the length of the prefix.
C9_BatchIsolation ==
    /\ [](/\ status = "raised" => ~ftp[idx].mapping
          /\ \A i \in Items : i < idx => item_state[i] \in Terminal
          /\ status = "completed" =>
                /\ report.status = "completed"
                /\ report.processed = Len(ftp)
                /\ \A i \in Items : item_state[i] \in Terminal)
    /\ [][\A i \in Items :
            (item_state[i] # "errored" /\ item_state'[i] = "errored") =>
                /\ results' = results
                /\ status' = "running"
                /\ idx' = i + 1
                /\ pc' \in {"item", "summary"}]_vars

\* three items, the second raises during request building, the first and the
\* third are accepted, the report counts 3 processed
C9_Witness ==
    /\ status = "completed"
    /\ item_state = <<"accepted", "errored", "accepted">>
    /\ ftp[2].line_kind = "str"
    /\ report.processed = 3
    /\ Len(report.fixes) = 2

\* C10: a defective failure record (no file path, unreadable or empty file,
\* an entry that is not a mapping) never aborts the batch: the item is
\* skipped without a model call or a sandbox run, the loop continues and the
\* completed report is returned.
C10_InputDefectSkipped ==
    /\ status # "raised"
    /\ \A i \in Items :
        /\ (i < idx /\ (~ftp[i].mapping \/ ftp[i].file_path = Absent))
              => item_state[i] = "skipped"
        /\ item_state[i] = "skipped" => (model_calls[i] = 0 /\ sandbox_runs[i] = 0)
    /\ pc = "done" => status \in {"completed", "no_failures"}

\* the items of the prefix that ended in a score
ScoredItems == {i \in Items : item_state[i] \in {"accepted", "rejected"}}

\* the items of the prefix that were skipped or errored
DroppedItems == {i \in Items : item_state[i] \in {"skipped", "no_fix", "errored"}}

KthAccepted(k) ==
    CHOOSE i \in Items :
        /\ item_state[i] = "accepted"
        /\ Cardinality({j \in 1..i : item_state[j] = "accepted"}) = k

\* C12: for every integer max_failures, negative values and 0 included, the
\* items attempted are exactly the first min(max(max_failures, 0), n) items of
\* the list, in order, each attempted once, never more than max_failures of
\* them, and the accepted fixes are in the order of their failures.
C12_RespectsMaxItems ==
    (pc # "start" /\ status # "no_failures") =>
        LET k == Min(Max(max_failures, 0), Len(failures)) IN
        /\ ftp = SubSeq(failures, 1, k)
        /\ Len(ftp) <= Max(max_failures, 0)
        /\ \A i \in Items : model_calls[i] <= 1 /\ sandbox_runs[i] <= 1
        /\ \A i \in Items : i > idx => item_state[i] = "pending"
        /\ \A j \in 1..Len(results) :
              /\ results[j].test_name = ftp[KthAccepted(j)].test_name
              /\ results[j].file = ftp[KthAccepted(j)].file_path

\* C13: in every 'completed' report total_failures is the length of the list
\* before truncation, fixes_generated is the length of 'fixes',
\* average_confidence is the arithmetic mean of final_confidence over 'fixes'
\* and exactly 0 when 'fixes' is empty, and
\* fixes_generated <= processed <= total_failures.
C13_ReportAggregates ==
    status = "completed" =>
        /\ report.total_failures = Len(failures)
        /\ report.fixes_generated = Len(report.fixes)
        /\ report.average_confidence.den > 0
        /\ IF report.fixes = <<>>
           THEN report.average_confidence.num = 0
           ELSE report.average_confidence.num * Len(report.fixes)
                    = SumFinal(report.fixes) * report.average_confidence.den
        /\ report.fixes_generated <= report.processed
        /\ report.processed <= report.total_failures

\* a completed batch cut to two of three failures, one fix accepted and one
\* rejected, the mean being the confidence of the accepted fix
C13_Witness ==
    /\ status = "completed"
    /\ report.total_failures = 3
    /\ report.processed = 2
    /\ report.fixes_generated = 1
    /\ \E i \in Items : item_state[i] = "rejected"
    /\ report.average_confidence.num = report.fixes[1].final_confidence
    /\ report.average_confidence.num > 0

\* fix_and_create_pr has returned its report
Returned == caller = "fix_and_create_pr" /\ ppc = "done"

\* the positions in the request log of the requests of one kind
Sent(kind) == {k \in 1..Len(requests) : requests[k].kind = kind}

\* C14: with an empty sequence of accepted fixes (no failures, or no fix met
\* the threshold) fix_and_create_pr sends no request of any kind and returns
\* the status that says that no fix met the threshold.
C14_EmptyIsNoOp ==
    caller = "fix_and_create_pr" =>
        /\ results = <<>> => requests = <<>>
        /\ (ppc \in {"comment", "create_pr", "labels"}) => results # <<>>
        /\ (Returned /\ results = <<>>) =>
              /\ pr_report.status = "no_fixes_generated"
              /\ pr_report.message = "No fixes met the confidence threshold"

\* three failures processed, none accepted, and the no-op report returned
C14_Witness ==
    /\ Returned
    /\ status = "completed"
    /\ report.processed = 3
    /\ report.fixes = <<>>
    /\ \E i \in Items : item_state[i] = "rejected"
    /\ pr_report.status = "no_fixes_generated"
    /\ requests = <<>>

\* the priority of a recommendation
Rank(rec) ==
    CASE rec = "CREATE_PR" -> 3
      [] rec = "CREATE_DRAFT_PR" -> 2
      [] rec = "COMMENT_ONLY" -> 1
      [] OTHER -> 0

\* the highest priority among the recommendations of a sequence of fixes
MaxRank(fixes) ==
    CHOOSE r \in 0..3 :
        /\ \E k \in 1..Len(fixes) : Rank(fixes[k].recommendation) = r
        /\ \A k \in 1..Len(fixes) : Rank(fixes[k].recommendation) <= r

\* C15: for a non-empty sequence of accepted fixes the overall
\* recommendation is the one of highest priority present among the fixes
\* (CREATE_PR > CREATE_DRAFT_PR > COMMENT_ONLY > SKIP), whatever their order
\* and whatever the mean; the confidence reported is the arithmetic mean of
\* the final confidences of the fixes.
C15_TopRecommendation ==
    pr_local.set =>
        /\ pr_local.fixes = report.fixes
        /\ pr_local.fixes # <<>>
        /\ pr_local.top_recommendation
              \in {pr_local.fixes[k].recommendation : k \in 1..Len(pr_local.fixes)}
        /\ Rank(pr_local.top_recommendation) = MaxRank(report.fixes)
        /\ pr_local.overall_confidence.den = Len(report.fixes)
        /\ pr_local.overall_confidence.num = SumFinal(report.fixes)
        /\ (Returned /\ pr_report.status \in {"skipped", "comment_added",
                                               "comment_failed", "pr_created"}) =>
              pr_report.average_confidence = pr_local.overall_confidence

\* a comment-level fix followed by a PR-level fix: the overall recommendation
\* is CREATE_PR although the first fix says COMMENT_ONLY and the mean is
\* below 0.90
C15_Witness ==
    /\ pr_local.set
    /\ Len(pr_local.fixes) = 2
    /\ pr_local.fixes[1].recommendation = "COMMENT_ONLY"
    /\ pr_local.fixes[2].recommendation = "CREATE_PR"
    /\ pr_local.top_recommendation = "CREATE_PR"
    /\ Below090(pr_local.overall_confidence)
    /\ Returned
    /\ pr_report.status = "pr_created"

\* C16: the pull request is opened as non-draft only if the overall
\* recommendation is CREATE_PR and the mean over the accepted fixes is
\* >= 0.90; when the mean is < 0.90 or the overall recommendation is
\* CREATE_DRAFT_PR the draft flag sent is true; the is_draft of the report
\* is the flag that was sent.
C16_DraftFlag ==
    \A k \in Sent("open_pr") :
        LET mean == [num |-> SumFinal(report.fixes), den |-> Len(report.fixes)]
            top == MaxRank(report.fixes)
        IN  /\ ~requests[k].draft => (top = 3 /\ ~Below090(mean))
            /\ (Below090(mean) \/ top = 2) => requests[k].draft
            /\ (Returned /\ pr_report.status = "pr_created") =>
                  pr_report.is_draft = requests[k].draft

\* a pull request opened for a batch whose top recommendation is CREATE_PR
\* and whose mean is below 0.90: sent and reported as draft
C16_Witness ==
    /\ Returned
    /\ pr_report.status = "pr_created"
    /\ pr_local.top_recommendation = "CREATE_PR"
    /\ Below090(pr_local.overall_confidence)
    /\ \E k \in Sent("open_pr") : requests[k].draft /\ requests[k].ok
    /\ pr_report.is_draft

\* C17: on the pull-request path a branch autofix/issue-<id>-<pattern of the
\* first fix> is created and a commit with all accepted fixes is pushed to
\* it before the open-PR request that names it as head; no open-PR request
\* is sent for a branch that this invocation did not create.
C17_BranchBeforePR ==
    \A k \in Sent("open_pr") :
        /\ requests[k].head = <<"autofix/issue-", IssueNumber, "-",
                                pattern_str(report.fixes[1].pattern)>>
        /\ \E i \in Sent("create_branch"), j \in Sent("push_commit") :
              /\ i < j /\ j < k
              /\ requests[i].head = requests[k].head
              /\ requests[j].head = requests[k].head
              /\ requests[j].covers = Len(report.fixes)

\* C18: when the overall recommendation is COMMENT_ONLY exactly one issue
\* comment covering all accepted fixes is posted and no branch, PR or label
\* request is sent; no invocation both posts a comment and opens a PR.
C18_CommentOnly ==
    /\ (pr_local.set /\ pr_local.top_recommendation = "COMMENT_ONLY") =>
          /\ \A k \in 1..Len(requests) : requests[k].kind = "comment"
          /\ Returned =>
                /\ Len(requests) = 1
                /\ requests[1].covers = Len(report.fixes)
                /\ pr_report.fixes_count = Len(report.fixes)
    /\ Sent("comment") = {} \/ Sent("open_pr") = {}
    /\ Cardinality(Sent("comment")) <= 1

\* two accepted fixes, the best of them comment-level: one comment covering
\* both, nothing else
C18_Witness ==
    /\ Returned
    /\ pr_local.set
    /\ pr_local.top_recommendation = "COMMENT_ONLY"
    /\ Len(report.fixes) = 2
    /\ requests = <<Request("comment", <<>>, FALSE, 2, TRUE)>>
    /\ pr_report.status = "comment_added"

\* C19: a rejected open-PR request gives the status 'pr_failed', a rejected
\* comment request 'comment_failed', and these come from nothing else (not
\* from an empty batch, not from an accepted request); a request is sent at
\* most once, nothing is sent after a rejected open-PR or comment request,
\* and no exception escapes once a request has been sent.
C19_FailedCallTerminal ==
    /\ \A kind \in {"open_pr", "comment", "labels"} : Cardinality(Sent(kind)) <= 1
    /\ \A k \in 1..Len(requests) :
          (requests[k].kind \in {"open_pr", "comment"} /\ ~requests[k].ok) =>
              /\ k = Len(requests)
              /\ Returned
              /\ pr_report.status =
                    (IF requests[k].kind = "open_pr" THEN "pr_failed" ELSE "comment_failed")
    /\ Returned =>
          /\ pr_report.status = "pr_failed" =>
                \E k \in Sent("open_pr") : ~requests[k].ok
          /\ pr_report.status = "comment_failed" =>
                \E k \in Sent("comment") : ~requests[k].ok
          /\ pr_report.status = "pr_created" =>
                \E k \in Sent("open_pr") : requests[k].ok
          /\ pr_report.status = "comment_added" =>
                \E k \in Sent("comment") : requests[k].ok
          /\ pr_report.status = "no_fixes_generated" => requests = <<>>
    /\ ppc = "raised" => requests = <<>>

\* a rejected comment request: one request, status comment_failed
C19_Witness ==
    /\ Returned
    /\ pr_report.status = "comment_failed"
    /\ Len(requests) = 1
    /\ requests[1].kind = "comment"
    /\ ~requests[1].ok
    /\ report.fixes # <<>>

\* _parse_response has been called
Parsed == p_out # NoParse

\* C20: _parse_response never raises to its caller: it returns a fix mapping
\* or None; None when the narrowed payload does not parse, when the parsed
\* value is not a mapping, and when the mapping has no fixed_code; also for a
\* confidence that is present but not numeric (null, a list, a non-numeric
\* string).
C20_ParseNeverRaises ==
    Parsed =>
        /\ p_out.kind \in {"fix", "none"}
        /\ p_reply.json # "object" => p_out.kind = "none"
        /\ ~p_reply.has_code => p_out.kind = "none"
        /\ p_out.kind = "fix" => InUnit(p_out.confidence)

\* _parse_response has been called on the reply text
TextParsed == t_out # NoText

\* C21: a reply made of optional prose, an opening fence (with or without
\* the json tag), the serialization of an object with a fixed_code field
\* (whatever the fixed_code, braces and triple backticks included) and a
\* closing fence is interpreted and gives back exactly that fixed_code; an
\* object without fixed_code gives None.
C21_FencedRoundTrip ==
    (TextParsed /\ t_in.fence \in {"json", "plain"}) =>
        IF t_in.key = "fixed_code"
        THEN t_out.kind = "fix" /\ t_out.fixed_code = t_in.code
        ELSE t_out.kind = "none"

\* C22: the pattern carried by a fix is that of its failure record, 'unknown'
\* when the record has none, and the same value is used by generate_fix,
\* by the scorer, in the 'pattern' field of the accepted fix in the report
\* and in the branch name.
C22_PatternOfFailure ==
    /\ (pc \in {"test", "score"}) => fix_data.pattern = pattern_for_scoring(ftp[idx])
    /\ \A j \in 1..Len(results) :
          results[j].pattern = pattern_for_scoring(ftp[KthAccepted(j)])
    /\ (status = "completed" /\ report.fixes # <<>>) =>
          branch_name_of(report.fixes) =
              <<"autofix/issue-", IssueNumber, "-", pattern_for_scoring(ftp[KthAccepted(1)])>>

StageOrder ==
    {<<"pending", "skipped">>, <<"pending", "context_read">>, <<"pending", "raised">>,
     <<"context_read", "no_fix">>, <<"context_read", "errored">>,
     <<"context_read", "fix_generated">>,
     <<"fix_generated", "verified">>,
     <<"verified", "accepted">>, <<"verified", "rejected">>, <<"verified", "errored">>}

----------------------------------------------------------------------------
(* fix_generator.py : _extract_context *)

\* the lengths of file drawn, in characters: around the 500 of the excerpt
FileChars == {1, 20, 500, 501, 2000}

\* a file of `lines` lines (the pieces of split('\n')) has at least lines - 1
\* characters; the line number is absent (None) or an integer from below the
\* first line to beyond the last one
ContextInputs ==
    {x \in [lines : 1..MaxLines, chars : FileChars, given : BOOLEAN,
            line_number : (0 - 3)..(MaxLines + 4)] :
        /\ x.chars >= x.lines - 1
        /\ ~x.given => x.line_number = 0}

\* faulty variant: the excerpt starts one line late
context_start_Late(line_number) == Max(0, line_number - 2)

\* line 210: start = max(0, line_number - 3)
context_start(line_number) == Max(0, line_number - 3)

\* line 211: end = min(len(lines), line_number + 2)
context_end(n, line_number) == Min(n, line_number + 2)

\* lines 203-219. Without a line number (None or 0): the first 500
\* characters, followed by "..." when the file is longer. With one: the
\* lines of range(start, end), each with its prefix, the number i + 1 and
\* the text lines[i] (named by its 1-based position in the file), joined by
\* newlines; the join of no lines is the empty string
extract_context(x) ==
    IF ~x.given \/ x.line_number = 0
    THEN [kind |-> "head", len |-> Min(x.chars, 500) + (IF x.chars > 500 THEN 3 ELSE 0),
          truncated |-> x.chars > 500, numbered |-> <<>>]
    ELSE LET start == context_start(x.line_number)
             end == context_end(x.lines, x.line_number)
         IN  [kind |-> "lines", len |-> 0, truncated |-> FALSE,
              numbered |-> [k \in 1..Max(end - start, 0) |->
                              LET i == start + k - 1 IN
                              [marked |-> (i = x.line_number - 1),
                               number |-> i + 1,
                               line |-> i + 1]]]

InitContext ==
    /\ BatchIdle /\ ScorerIdle /\ PRIdle
    /\ caller = "none"
    /\ p_reply = NoReply /\ p_out = NoParse
    /\ TextIdle
    /\ x_in \in ContextInputs
    /\ x_out = NoContext

ExtractContext ==
    /\ x_out = NoContext
    /\ x_out' = extract_context(x_in)
    /\ UNCHANGED <<x_in, p_reply, p_out, t_in, t_out, scorerVars, batchVars, prVars>>

NextContext == ExtractContext

SpecContext == InitContext /\ [][NextContext]_vars

ContextExtracted == x_out # NoContext

\* the excerpt is the empty string
context_is_empty(out) ==
    IF out.kind = "head" THEN out.len = 0 ELSE out.numbered = <<>>

\* C25: for every non-empty file and every line number (absent, 0, negative,
\* within the file, beyond the last line) the excerpt is non-empty and is
\* either at most 5 numbered lines or the first 500 characters followed by
\* the truncation marker when the file is longer.
C25_ContextNonEmpty ==
    ContextExtracted =>
        /\ ~context_is_empty(x_out)
        /\ \/ x_out.kind = "lines" /\ Len(x_out.numbered) <= 5
           \/ /\ x_out.kind = "head"
              /\ x_out.len = Min(x_in.chars, 500) + (IF x_in.chars > 500 THEN 3 ELSE 0)
              /\ x_out.truncated <=> x_in.chars > 500

\* C26: for a file of N lines and a line number L with 1 <= L <= N the
\* excerpt is exactly the lines max(1, L-2) .. min(N, L+2), in order, each
\* with its own 1-based number, with the marker on line L and on no other.
C26_ContextWindow ==
    (ContextExtracted /\ x_in.given /\ x_in.line_number >= 1
                      /\ x_in.line_number <= x_in.lines) =>
        LET L == x_in.line_number
            lo == IF L - 2 > 1 THEN L - 2 ELSE 1
            hi == IF L + 2 < x_in.lines THEN L + 2 ELSE x_in.lines
        IN  /\ x_out.kind = "lines"
            /\ Len(x_out.numbered) = hi - lo + 1
            /\ \A k \in 1..Len(x_out.numbered) :
                  /\ x_out.numbered[k].line = lo + k - 1
                  /\ x_out.numbered[k].number = x_out.numbered[k].line
                  /\ x_out.numbered[k].marked <=> (lo + k - 1 = L)
            /\ Cardinality({k \in 1..Len(x_out.numbered) : x_out.numbered[k].marked}) = 1

\* a file of six lines with the error on line 3: lines 1 to 5, marker on the
\* third
C26_Witness ==
    /\ ContextExtracted
    /\ x_in.given /\ x_in.lines = 6 /\ x_in.line_number = 3
    /\ Len(x_out.numbered) = 5
    /\ x_out.numbered[1].number = 1
    /\ x_out.numbered[3].marked

\* C27: for every reply that _parse_response accepts the returned mapping
\* has a confidence in [0, 1] and an explanation: a missing confidence is
\* exactly 0.7, a numeric confidence c is min(1, max(0, c)), a missing
\* explanation is 'AI-generated fix', a present one is kept; fixed_code is
\* returned as it was.
C27_AcceptedReplyDefaults ==
    (Parsed /\ p_out.kind = "fix") =>
        /\ p_out.confidence >= 0 /\ p_out.confidence <= One
        /\ p_reply.conf_kind = "absent" => p_out.confidence = 700000
        /\ p_reply.conf_kind = "num" =>
              p_out.confidence = (IF p_reply.conf < 0 THEN 0
                                  ELSE IF p_reply.conf > One THEN One ELSE p_reply.conf)
        /\ p_out.explanation # "absent"
        /\ p_reply.expl = "absent" <=> p_out.explanation = "AI-generated fix"
        /\ p_reply.expl # "absent" => p_out.explanation = p_reply.expl
        /\ p_out.code_str = p_reply.code_str /\ p_out.lines = p_reply.lines

\* an accepted reply with confidence 1.5 and no explanation
C27_Witness ==
    /\ Parsed /\ p_out.kind = "fix"
    /\ p_reply.conf_kind = "num" /\ p_reply.conf = 1500000 /\ p_out.confidence = One
    /\ p_reply.expl = "absent" /\ p_out.explanation = "AI-generated fix"
    /\ p_reply.lines = 6 /\ p_out.lines = 6

\* the statuses of the comment branch
CommentStatuses == {"comment_added", "comment_failed"}

\* C28: with a threshold >= 0.75 every accepted fix has the recommendation
\* CREATE_PR or CREATE_DRAFT_PR and fix_and_create_pr with accepted fixes
\* takes the pull-request branch: no comment is sent and no 'skipped' is
\* returned; the comment branch is taken only with a threshold < 0.75 and
\* 'skipped' is returned only with a threshold < 0.50.
C28_ThresholdDecidesBranch ==
    /\ min_confidence >= 750000 =>
          /\ \A j \in 1..Len(results) :
                results[j].recommendation \in {"CREATE_PR", "CREATE_DRAFT_PR"}
          /\ pr_local.set => action_for(pr_local.top_recommendation) = "create_pr"
          /\ ppc # "comment"
          /\ Sent("comment") = {}
          /\ pr_report.status \notin CommentStatuses \cup {"skipped"}
    /\ (ppc = "comment" \/ pr_report.status \in CommentStatuses \/ Sent("comment") # {}) =>
          min_confidence < 750000
    /\ pr_report.status = "skipped" => min_confidence < 500000

\* the default threshold, two accepted fixes, one of them draft-level, and
\* the pull request opened
C28_Witness ==
    /\ Returned
    /\ pr_report.status = "pr_created"
    /\ min_confidence = 750000
    /\ Len(report.fixes) = 2
    /\ \E j \in 1..2 : report.fixes[j].recommendation = "CREATE_DRAFT_PR"
    /\ Sent("open_pr") # {}

\* a mean q, as the program holds it, is >= v / <= v (v in millionths)
AtLeast(q, v) == q.num > v * q.den \/ (q.num = v * q.den /\ UlpOf(q) >= 0)
AtMost(q, v) == q.num < v * q.den \/ (q.num = v * q.den /\ UlpOf(q) <= 0)

MinFinal(rs) ==
    CHOOSE v \in {rs[k].final_confidence : k \in 1..Len(rs)} :
        \A k \in 1..Len(rs) : v <= rs[k].final_confidence
MaxFinal(rs) ==
    CHOOSE v \in {rs[k].final_confidence : k \in 1..Len(rs)} :
        \A k \in 1..Len(rs) : v >= rs[k].final_confidence

FractionBetween(q, lo, hi) == lo * q.den <= q.num /\ q.num <= hi * q.den

C30_CapOfFive ==
    caller = "fix_and_create_pr" =>
        /\ max_failures = 5
        /\ status \in {"running", "completed", "raised"} =>
              /\ Len(ftp) = (IF Len(failures) < 5 THEN Len(failures) ELSE 5)
              /\ \A i \in 1..Len(ftp) : ftp[i] = failures[i]
        /\ Len(item_state) <= 5
        /\ DOMAIN model_calls \subseteq 1..5
        /\ DOMAIN sandbox_runs \subseteq 1..5
        /\ Len(results) <= 5
        /\ \A k \in 1..Len(requests) : requests[k].covers <= 5

\* a list of more than five failures whose fifth and sixth entries can be
\* fixed: the fifth was accepted and is the only fix of the pull request
C30_Witness ==
    /\ Returned
    /\ Len(failures) > 5
    /\ failures[5].file_path # Absent /\ failures[6] = failures[5]
    /\ Len(item_state) = 5
    /\ item_state[5] = "accepted"
    /\ model_calls[5] = 1
    /\ pr_report.status = "pr_created"
    /\ \E k \in Sent("open_pr") : requests[k].covers = 1

====
